---- MODULE Spec2Model ----
(***************************************************************************)
(* Admission Announcements API (src/app.py): three source extractors, the  *)
(* aggregation of their results, pagination by slicing, and the two        *)
(* announcements request handlers.                                         *)
(*                                                                         *)
(* Text is a sequence of one-character strings, so that strip() and        *)
(* lower() are computed character by character.  A fixed message is one    *)
(* token of such a sequence.                                               *)
(***************************************************************************)
EXTENDS Integers, Sequences, FiniteSets, TLC

VARIABLES pc, req, fetches, bangalore, goa, mumbai, all_announcements,
          announcements, resp,
          t_pc, t_source, t_element, t_record,
          s_pc, s_list, s_limit, s_offset, s_page, s_acc

vars == <<pc, req, fetches, bangalore, goa, mumbai, all_announcements,
          announcements, resp,
          t_pc, t_source, t_element, t_record,
          s_pc, s_list, s_limit, s_offset, s_page, s_acc>>

handlerVars == <<pc, req, fetches, bangalore, goa, mumbai, all_announcements,
                 announcements, resp>>
titleVars == <<t_pc, t_source, t_element, t_record>>
sliceVars == <<s_pc, s_list, s_limit, s_offset, s_page, s_acc>>

(***************************************************************************)
(* Bounds of the model.                                                    *)
(***************************************************************************)
\* longest text node of a page element, in characters
MaxText == 2
\* most items (li or h4) on a fetched page
MaxItems == 2
\* largest limit query parameter tried (the code accepts any limit >= 1)
MaxLimit == 2
\* largest offset query parameter tried (the code accepts any offset >= 0)
MaxOffset == 3
\* longest result sequence paginated on its own
MaxLen == 4

Min(a, b) == IF a < b THEN a ELSE b
Max(a, b) == IF a > b THEN a ELSE b

\* Python None
None == [none |-> TRUE]

(***************************************************************************)
(* Text: str.strip() and str.lower().                                      *)
(***************************************************************************)
TextChars == {" ", "a"}

RECURSIVE TextsUpTo(_)
TextsUpTo(n) ==
    IF n = 0 THEN {<<>>}
    ELSE LET shorter == TextsUpTo(n - 1)
         IN  shorter \cup {Append(t, c) : t \in {u \in shorter : Len(u) = n - 1},
                                          c \in TextChars}

Texts == TextsUpTo(MaxText)

IsSpace(c) == c = " "

RECURSIVE LStrip(_)
LStrip(t) == IF t # <<>> /\ IsSpace(Head(t)) THEN LStrip(Tail(t)) ELSE t

RECURSIVE RStrip(_)
RStrip(t) ==
    IF t # <<>> /\ IsSpace(t[Len(t)]) THEN RStrip(SubSeq(t, 1, Len(t) - 1)) ELSE t

\* str.strip(): leading and trailing whitespace removed
Strip(t) == RStrip(LStrip(t))

UpperCase == <<"A","B","C","D","E","F","G","H","I","J","K","L","M",
               "N","O","P","Q","R","S","T","U","V","W","X","Y","Z">>
LowerCase == <<"a","b","c","d","e","f","g","h","i","j","k","l","m",
               "n","o","p","q","r","s","t","u","v","w","x","y","z">>

LowerChar(c) ==
    IF \E i \in 1..Len(UpperCase) : UpperCase[i] = c
    THEN LowerCase[CHOOSE i \in 1..Len(UpperCase) : UpperCase[i] = c]
    ELSE c

\* str.lower()
Lower(t) == [i \in 1..Len(t) |-> LowerChar(t[i])]

\* `text or "Untitled"`: an empty string is falsy
Untitled == <<"Untitled">>
OrUntitled(t) == IF t = <<>> THEN Untitled ELSE t

(***************************************************************************)
(* Calls either return a value or raise an exception.                      *)
(***************************************************************************)
Return(v) == [raised |-> FALSE, value |-> v]
Raise(e) == [raised |-> TRUE, exc |-> e]

\* requests.RequestException and the subclasses requests.get and
\* raise_for_status raise
RequestExceptions == {"ConnectionError", "Timeout", "HTTPError"}

HTTPException(code, text) ==
    [class |-> "HTTPException", status_code |-> code, detail |-> text]

(***************************************************************************)
(* The remote fetch: requests.get(url, timeout=10) and raise_for_status(). *)
(* An outcome is what the remote site does with the GET: the connection    *)
(* fails, the timeout expires, or a response arrives with a status code    *)
(* and a body (the page).                                                  *)
(***************************************************************************)
StatusCodes == {200, 300, 404, 503}

requests_get(outcome) ==
    IF outcome.kind = "response"
    THEN Return([status_code |-> outcome.status_code, page |-> outcome.page])
    ELSE Raise(outcome.kind)

\* Response.raise_for_status(): HTTPError for 4xx and 5xx, nothing otherwise
raise_for_status(response) ==
    IF 400 <= response.status_code /\ response.status_code < 600
    THEN Raise("HTTPError")
    ELSE Return(response)

\* the try block of an extractor: the response, or the exception raised
TryFetch(outcome) ==
    LET got == requests_get(outcome)
    IN  IF got.raised THEN got ELSE raise_for_status(got.value)

\* except requests.ConnectionError only
CaughtConnectionErrorOnly(e) == e = "ConnectionError"

\* except requests.RequestException
CaughtByExtractor(e) == e \in RequestExceptions

(***************************************************************************)
(* Pages.  An item is an li element: text, an optional first a element,    *)
(* text.  A heading is an h4 element with its next sibling element.        *)
(***************************************************************************)
Hrefs == {None,
          [form |-> "empty", ref |-> ""],
          [form |-> "relative", ref |-> "doc.pdf"],
          [form |-> "rooted", ref |-> "/files/doc.pdf"],
          [form |-> "absolute", ref |-> "https://example.org/doc.pdf"]}

Links == {None} \cup [href : Hrefs, text : Texts]
Items == [pre : Texts, a : Links, post : Texts]

\* most li elements of the list that follows a heading
MaxDetails == 1

RECURSIVE SeqsUpTo(_, _)
SeqsUpTo(S, n) ==
    IF n = 0 THEN {<<>>}
    ELSE LET shorter == SeqsUpTo(S, n - 1)
         IN  shorter \cup {Append(q, x) : q \in {u \in shorter : Len(u) = n - 1},
                                          x \in S}

Siblings == {None} \cup [name : {"ul", "p"}, li : SeqsUpTo(Texts, MaxDetails)]
Headings == [text : Texts, next : Siblings]

\* Tag.text: the text of the element and of its descendants, in document order
ItemText(item) ==
    item.pre \o (IF item.a = None THEN <<>> ELSE item.a.text) \o item.post

\* truth value of link_tag.get('href'): None and "" are falsy
HasHref(a) == a.href # None /\ a.href.form # "empty"

BangaloreUrl == [origin |-> "https://bangaloreuniversity.karnataka.gov.in",
                 dir |-> "/"]
MumbaiUrl == [origin |-> "https://mu.ac.in", dir |-> "/"]

\* urllib.parse.urljoin(url, href) for a non-empty href; a URL value is [url |-> s]
urljoin(url, href) ==
    CASE href.form = "absolute" -> [url |-> href.ref]
      [] href.form = "rooted" -> [url |-> url.origin \o href.ref]
      [] href.form = "relative" -> [url |-> url.origin \o url.dir \o href.ref]

(***************************************************************************)
(* The records the extractors append, one per item.                        *)
(***************************************************************************)
\* the link element's text taken whether or not the link has an href
bangalore_record_any_link(item) ==
    IF item.a # None
    THEN [university |-> "Bangalore",
          title |-> OrUntitled(Strip(item.a.text)),
          description |-> None,
          link |-> IF HasHref(item.a) THEN urljoin(BangaloreUrl, item.a.href) ELSE None]
    ELSE [university |-> "Bangalore",
          title |-> OrUntitled(Strip(ItemText(item))),
          description |-> None,
          link |-> None]

bangalore_record(item) ==
    IF item.a # None /\ HasHref(item.a)
    THEN [university |-> "Bangalore",
          title |-> OrUntitled(Strip(item.a.text)),
          description |-> None,
          link |-> urljoin(BangaloreUrl, item.a.href)]
    ELSE [university |-> "Bangalore",
          title |-> OrUntitled(Strip(ItemText(item))),
          description |-> None,
          link |-> None]

goa_record(h4) ==
    [university |-> "Goa",
     title |-> OrUntitled(Strip(h4.text)),
     details |-> IF h4.next # None /\ h4.next.name = "ul"
                 THEN [i \in 1..Len(h4.next.li) |-> Strip(h4.next.li[i])]
                 ELSE <<>>]

mumbai_record(li) ==
    IF li.a # None /\ HasHref(li.a)
    THEN [university |-> "Mumbai",
          title |-> OrUntitled(Strip(li.a.text)),
          link |-> urljoin(MumbaiUrl, li.a.href)]
    ELSE [university |-> "Mumbai",
          title |-> OrUntitled(Strip(ItemText(li))),
          link |-> None]

(***************************************************************************)
(* The extractors.  Each takes the outcome of its fetch and returns the    *)
(* list of records, in document order.                                     *)
(***************************************************************************)
bangalore_parse(page) ==
    IF page.container = None THEN <<>>
    ELSE IF page.container.ul = None THEN <<>>
    ELSE LET items == page.container.ul.li
         IN  [i \in 1..Len(items) |-> bangalore_record(items[i])]

goa_parse(page) ==
    IF page.details1 = None THEN <<>>
    ELSE IF page.details1.details1_left = None THEN <<>>
    ELSE LET h4s == page.details1.details1_left.h4
         IN  [i \in 1..Len(h4s) |-> goa_record(h4s[i])]

mumbai_parse(page) ==
    [i \in 1..Len(page.list_items) |-> mumbai_record(page.list_items[i])]

scrape_bangalore_notifications(outcome) ==
    LET r == TryFetch(outcome)
    IN  IF r.raised
        THEN IF CaughtByExtractor(r.exc) THEN Return(<<>>) ELSE r
        ELSE Return(bangalore_parse(r.value.page))

scrape_goa_notifications(outcome) ==
    LET r == TryFetch(outcome)
    IN  IF r.raised
        THEN IF CaughtByExtractor(r.exc) THEN Return(<<>>) ELSE r
        ELSE Return(goa_parse(r.value.page))

scrape_mumbai_notifications(outcome) ==
    LET r == TryFetch(outcome)
    IN  IF r.raised
        THEN IF CaughtByExtractor(r.exc) THEN Return(<<>>) ELSE r
        ELSE Return(mumbai_parse(r.value.page))


(***************************************************************************)
(* Pagination and the bodies of the two announcements handlers.            *)
(***************************************************************************)
\* S[start:stop] for 0 <= start <= stop: both ends clamped to len(S)
Slice(S, start, stop) ==
    LET lo == Min(start, Len(S))
        hi == Min(stop, Len(S))
    IN  [i \in 1..(hi - lo) |-> S[lo + i]]

\* the slice taken as list[offset:limit]
PaginatedStopAtLimit(list, limit, offset) ==
    [data |-> Slice(list, offset, limit),
     total |-> Len(list),
     limit |-> limit,
     offset |-> offset]

\* total taken after slicing
PaginatedTotalAfterSlice(list, limit, offset) ==
    [data |-> Slice(list, offset, offset + limit),
     total |-> Len(Slice(list, offset, offset + limit)),
     limit |-> limit,
     offset |-> offset]

\* total, paginated and the returned dict
Paginated(list, limit, offset) ==
    [data |-> Slice(list, offset, offset + limit),
     total |-> Len(list),
     limit |-> limit,
     offset |-> offset]

\* goa + bangalore + mumbai
AggregateGoaFirst(b, g, m) == g \o b \o m

\* bangalore + goa + mumbai
Aggregate(b, g, m) == b \o g \o m

\* the try block of get_all_announcements after the three extractor calls
AllBody(all, limit, offset) ==
    IF all = <<>>
    THEN Raise(HTTPException(404, <<"No announcements found">>))
    ELSE Return(Paginated(all, limit, offset))

\* the try block of get_university_announcements after the extractor call
UniversityBody(university, list, limit, offset) ==
    IF list = <<>>
    THEN Raise(HTTPException(404, <<"No announcements found for ">> \o university))
    ELSE Return(Paginated(list, limit, offset))

\* except Exception: every exception raised in the try block, HTTPException
\* included, is replaced by HTTPException(500)
ExceptException(r) ==
    IF r.raised
    THEN Raise(HTTPException(500, <<"Internal server error">>))
    ELSE r

\* what the client receives: the returned dict with status 200, or the status
\* and detail of the HTTPException that left the handler
ToResponse(r) ==
    IF r.raised
    THEN [status |-> r.exc.status_code, detail |-> r.exc.detail]
    ELSE [status |-> 200, body |-> r.value]

\* the keys of the scrapers dict, each with the extractor it names
scrapers ==
    (<<"b","a","n","g","a","l","o","r","e">> :> "bangalore")
    @@ (<<"g","o","a">> :> "goa")
    @@ (<<"m","u","m","b","a","i">> :> "mumbai")

\* the key looked up as given
university_key_as_given(university) == university

university_key(university) == Lower(university)

\* the same raise placed inside the try block
UnknownUniversityInsideTry(university) ==
    ExceptException(
        Raise(HTTPException(404, <<"University '">> \o university \o <<"' not found">>)))

\* raise HTTPException(404, "University '...' not found"), outside the try block
UnknownUniversity(university) ==
    Raise(HTTPException(404, <<"University '">> \o university \o <<"' not found">>))

(***************************************************************************)
(* Inputs.                                                                 *)
(***************************************************************************)
SampleText(i) == [k \in 1..i |-> "a"]

\* odd items carry a link with an href, even ones carry none
SampleItem(i) ==
    IF i % 2 = 1
    THEN [pre |-> <<" ">>,
          a |-> [href |-> [form |-> "relative", ref |-> "doc.pdf"],
                 text |-> SampleText(i)],
          post |-> <<>>]
    ELSE [pre |-> SampleText(i), a |-> None, post |-> <<" ">>]

SampleHeading(i) ==
    [text |-> SampleText(i),
     next |-> IF i % 2 = 1 THEN [name |-> "ul", li |-> <<SampleText(i)>>] ELSE None]

BangalorePages ==
    {[container |-> None], [container |-> [ul |-> None]]}
    \cup {[container |-> [ul |-> [li |-> [i \in 1..n |-> SampleItem(i)]]]] :
            n \in 0..MaxItems}

GoaPages ==
    {[details1 |-> None], [details1 |-> [details1_left |-> None]]}
    \cup {[details1 |-> [details1_left |-> [h4 |-> [i \in 1..n |-> SampleHeading(i)]]]] :
            n \in 0..MaxItems}

MumbaiPages == {[list_items |-> [i \in 1..n |-> SampleItem(i)]] : n \in 0..MaxItems}

Outcomes(pages) ==
    {[kind |-> "ConnectionError"], [kind |-> "Timeout"]}
    \cup {[kind |-> "response", status_code |-> c, page |-> p] :
            c \in StatusCodes, p \in pages}

Limits == 1..MaxLimit
Offsets == 0..MaxOffset

\* every spelling of goa; some spellings of the other keys; unknown values
GoaSpellings == {<<g, o, a>> : g \in {"g", "G"}, o \in {"o", "O"}, a \in {"a", "A"}}
BangaloreSpellings ==
    {<<"b","a","n","g","a","l","o","r","e">>,
     <<"B","a","n","g","a","l","o","r","e">>,
     <<"B","A","N","G","A","L","O","R","E">>,
     <<"b","A","n","G","a","L","o","R","e">>}
MumbaiSpellings ==
    {<<"m","u","m","b","a","i">>,
     <<"M","u","m","b","a","i">>,
     <<"M","U","M","B","A","I">>}
UnknownValues ==
    {<<"o","x","f","o","r","d">>,
     <<"O","x","f","o","r","d">>,
     <<"g","o","a"," ">>,
     <<"g","o">>}
Universities ==
    GoaSpellings \cup BangaloreSpellings \cup MumbaiSpellings \cup UnknownValues

(***************************************************************************)
(* The request handlers, one step per call that leaves the process.        *)
(***************************************************************************)
InitHandler ==
    /\ pc = "idle"
    /\ req = None
    /\ fetches = <<>>
    /\ bangalore = <<>>
    /\ goa = <<>>
    /\ mumbai = <<>>
    /\ all_announcements = <<>>
    /\ announcements = <<>>
    /\ resp = None

\* GET /announcements?limit=&offset=
ReceiveAll ==
    /\ pc = "idle"
    /\ \E limit \in Limits, offset \in Offsets :
         req' = [endpoint |-> "all", university |-> <<>>,
                 limit |-> limit, offset |-> offset]
    /\ pc' = "scrape_bangalore"
    /\ UNCHANGED <<fetches, bangalore, goa, mumbai, all_announcements,
                   announcements, resp>>

\* GET /announcements/{university}?limit=&offset=
ReceiveUniversity ==
    /\ pc = "idle"
    /\ \E university \in Universities, limit \in Limits, offset \in Offsets :
         req' = [endpoint |-> "university", university |-> university,
                 limit |-> limit, offset |-> offset]
    /\ pc' = "lookup"
    /\ UNCHANGED <<fetches, bangalore, goa, mumbai, all_announcements,
                   announcements, resp>>

\* university_key = university.lower(); if university_key not in scrapers: raise
Lookup ==
    /\ pc = "lookup"
    /\ LET key == university_key(req.university)
       IN  IF key \notin DOMAIN scrapers
           THEN /\ resp' = ToResponse(UnknownUniversity(req.university))
                /\ pc' = "done"
           ELSE /\ pc' = "scrape_" \o scrapers[key]
                /\ resp' = resp
    /\ UNCHANGED <<req, fetches, bangalore, goa, mumbai, all_announcements,
                   announcements>>

\* Goa's extractor left out of the aggregate
AfterScrapeSkipGoa(endpoint, source) ==
    IF endpoint = "university" THEN "respond"
    ELSE CASE source = "bangalore" -> "scrape_mumbai"
           [] source = "goa" -> "scrape_mumbai"
           [] source = "mumbai" -> "respond"

\* where the handler goes after the extractor for `source` has returned
AfterScrape(endpoint, source) ==
    IF endpoint = "university" THEN "respond"
    ELSE CASE source = "bangalore" -> "scrape_goa"
           [] source = "goa" -> "scrape_mumbai"
           [] source = "mumbai" -> "respond"

\* one extractor call; an exception it raised is caught by except Exception
Scraped(source, outcome, r) ==
    /\ fetches' = Append(fetches, [source |-> source, outcome |-> outcome, result |-> r])
    /\ IF r.raised
       THEN /\ resp' = ToResponse(ExceptException(r))
            /\ pc' = "done"
            /\ UNCHANGED <<bangalore, goa, mumbai, announcements>>
       ELSE /\ resp' = resp
            /\ pc' = AfterScrape(req.endpoint, source)
            /\ IF req.endpoint = "university"
               THEN /\ announcements' = r.value
                    /\ UNCHANGED <<bangalore, goa, mumbai>>
               ELSE /\ bangalore' = IF source = "bangalore" THEN r.value ELSE bangalore
                    /\ goa' = IF source = "goa" THEN r.value ELSE goa
                    /\ mumbai' = IF source = "mumbai" THEN r.value ELSE mumbai
                    /\ UNCHANGED announcements
    /\ UNCHANGED <<req, all_announcements>>

ScrapeBangalore ==
    /\ pc = "scrape_bangalore"
    /\ \E outcome \in Outcomes(BangalorePages) :
         Scraped("bangalore", outcome, scrape_bangalore_notifications(outcome))

ScrapeGoa ==
    /\ pc = "scrape_goa"
    /\ \E outcome \in Outcomes(GoaPages) :
         Scraped("goa", outcome, scrape_goa_notifications(outcome))

ScrapeMumbai ==
    /\ pc = "scrape_mumbai"
    /\ \E outcome \in Outcomes(MumbaiPages) :
         Scraped("mumbai", outcome, scrape_mumbai_notifications(outcome))

\* all_announcements = bangalore + goa + mumbai, the 404 check, the slice
RespondAll ==
    /\ pc = "respond"
    /\ req.endpoint = "all"
    /\ all_announcements' = Aggregate(bangalore, goa, mumbai)
    /\ resp' = ToResponse(ExceptException(
                   AllBody(all_announcements', req.limit, req.offset)))
    /\ pc' = "done"
    /\ UNCHANGED <<req, fetches, bangalore, goa, mumbai, announcements>>

\* the 404 check and the slice of one source's announcements
RespondUniversity ==
    /\ pc = "respond"
    /\ req.endpoint = "university"
    /\ resp' = ToResponse(ExceptException(
                   UniversityBody(req.university, announcements,
                                  req.limit, req.offset)))
    /\ pc' = "done"
    /\ UNCHANGED <<req, fetches, bangalore, goa, mumbai, all_announcements,
                   announcements>>

InitTitleIdle ==
    /\ t_pc = "off"
    /\ t_source = "none"
    /\ t_element = None
    /\ t_record = None

InitSliceIdle ==
    /\ s_pc = "off"
    /\ s_list = <<>>
    /\ s_limit = 1
    /\ s_offset = 0
    /\ s_page = <<>>
    /\ s_acc = <<>>

Init == InitHandler /\ InitTitleIdle /\ InitSliceIdle

Next ==
    \/ ReceiveAll /\ UNCHANGED <<titleVars, sliceVars>>
    \/ ReceiveUniversity /\ UNCHANGED <<titleVars, sliceVars>>
    \/ Lookup /\ UNCHANGED <<titleVars, sliceVars>>
    \/ ScrapeBangalore /\ UNCHANGED <<titleVars, sliceVars>>
    \/ ScrapeGoa /\ UNCHANGED <<titleVars, sliceVars>>
    \/ ScrapeMumbai /\ UNCHANGED <<titleVars, sliceVars>>
    \/ RespondAll /\ UNCHANGED <<titleVars, sliceVars>>
    \/ RespondUniversity /\ UNCHANGED <<titleVars, sliceVars>>

Spec == Init /\ [][Next]_vars


(***************************************************************************)
(* Title extraction on its own: one page element of one source, and the    *)
(* record its extractor appends for it.                                    *)
(***************************************************************************)
TitleInputs ==
    /\ t_pc = "element"
    /\ \E source \in {"bangalore", "goa", "mumbai"} :
         /\ t_source = source
         /\ t_element \in (IF source = "goa" THEN Headings ELSE Items)
    /\ t_record = None

BangaloreItem ==
    /\ t_pc = "element"
    /\ t_source = "bangalore"
    /\ t_record' = bangalore_record(t_element)
    /\ t_pc' = "appended"
    /\ UNCHANGED <<t_source, t_element>>

GoaHeading ==
    /\ t_pc = "element"
    /\ t_source = "goa"
    /\ t_record' = goa_record(t_element)
    /\ t_pc' = "appended"
    /\ UNCHANGED <<t_source, t_element>>

MumbaiItem ==
    /\ t_pc = "element"
    /\ t_source = "mumbai"
    /\ t_record' = mumbai_record(t_element)
    /\ t_pc' = "appended"
    /\ UNCHANGED <<t_source, t_element>>

NextTitle ==
    \/ BangaloreItem /\ UNCHANGED <<handlerVars, sliceVars>>
    \/ GoaHeading /\ UNCHANGED <<handlerVars, sliceVars>>
    \/ MumbaiItem /\ UNCHANGED <<handlerVars, sliceVars>>

InitTitle == InitHandler /\ TitleInputs /\ InitSliceIdle

SpecTitle == InitTitle /\ [][NextTitle]_vars

(***************************************************************************)
(* Pagination on its own: one result list and one limit, sliced at an      *)
(* arbitrary offset, or walked page by page from offset 0.                 *)
(***************************************************************************)
SliceInputs ==
    /\ s_pc = "start"
    /\ s_list \in SeqsUpTo(1..MaxLen, MaxLen)
    /\ s_limit \in Limits
    /\ s_offset = 0
    /\ s_page = <<>>
    /\ s_acc = <<>>

\* one request at any offset
SliceAt ==
    /\ s_pc = "start"
    /\ \E offset \in Offsets :
         /\ s_offset' = offset
         /\ s_page' = Paginated(s_list, s_limit, offset).data
    /\ s_pc' = "single"
    /\ UNCHANGED <<s_list, s_limit, s_acc>>

\* the next request of a walk at offsets 0, limit, 2*limit, ...
NextPage ==
    /\ s_pc \in {"start", "walking"}
    /\ LET offset == IF s_pc = "start" THEN 0 ELSE s_offset + s_limit
           page == Paginated(s_list, s_limit, offset).data
       IN  /\ s_offset' = offset
           /\ s_page' = page
           /\ s_acc' = s_acc \o page
           /\ s_pc' = IF offset + s_limit >= Len(s_list) THEN "walked" ELSE "walking"
    /\ UNCHANGED <<s_list, s_limit>>

NextSlice ==
    \/ SliceAt /\ UNCHANGED <<handlerVars, titleVars>>
    \/ NextPage /\ UNCHANGED <<handlerVars, titleVars>>

InitSlice == InitHandler /\ InitTitleIdle /\ SliceInputs

SpecSlice == InitSlice /\ [][NextSlice]_vars


(***************************************************************************)
(* Properties.                                                             *)
(***************************************************************************)
FetchSources == [i \in 1..Len(fetches) |-> fetches[i].source]

\* the value the i-th extractor call returned
Returned(i) == fetches[i].result.value

AllDone == pc = "done" /\ req.endpoint = "all" /\ Len(fetches) = 3
UniversityDone == pc = "done" /\ req.endpoint = "university" /\ Len(fetches) = 1

\* the sequence a finished request paginated, from what its extractor calls returned
PreSlicing ==
    IF req.endpoint = "all"
    THEN Returned(1) \o Returned(2) \o Returned(3)
    ELSE Returned(1)

IsResponseOutcome(o) == o.kind = "response"

\* C1: GET /announcements whose three extractor results concatenate to the
\* empty sequence answers 404 "No announcements found", not 500 and not 200.
C1_EmptyAggregateIs404 ==
    (AllDone /\ PreSlicing = <<>>)
        => resp = [status |-> 404, detail |-> <<"No announcements found">>]

\* C2: for every known source key, when the source's fetch returns a non-2xx
\* status the extractor returns the empty sequence and
\* GET /announcements/{university} answers 404, never 500.
C2_Non2xxIs404 ==
    (/\ UniversityDone
     /\ IsResponseOutcome(fetches[1].outcome)
     /\ fetches[1].outcome.status_code \notin 200..299)
        => /\ fetches[1].result = Return(<<>>)
           /\ resp.status = 404

\* C3: a path value whose lower-cased form is not bangalore, goa or mumbai is
\* answered 404 with detail "University '<value as given>' not found", for
\* every limit and offset, and no extractor runs.
C3_UnknownUniversity404 ==
    (/\ pc = "done"
     /\ req.endpoint = "university"
     /\ Lower(req.university) \notin DOMAIN scrapers)
        => /\ resp = [status |-> 404,
                      detail |-> <<"University '">> \o req.university
                                     \o <<"' not found">>]
           /\ fetches = <<>>

C3_Witness ==
    /\ pc = "done"
    /\ req.endpoint = "university"
    /\ req.university = <<"O","x","f","o","r","d">>
    /\ req.offset = MaxOffset
    /\ resp.status = 404

\* the spellings of each key that requests are made with
SpellingsOf(key) ==
    CASE scrapers[key] = "bangalore" -> BangaloreSpellings
      [] scrapers[key] = "goa" -> GoaSpellings
      [] scrapers[key] = "mumbai" -> MumbaiSpellings

\* C4: every upper, lower or mixed-case spelling of a known key runs that
\* key's extractor, and only it, and is answered as the lower-case key is for
\* the same limit, offset and extractor result.
C4_CaseInsensitiveLookup ==
    \A key \in DOMAIN scrapers :
        (/\ pc = "done"
         /\ req.endpoint = "university"
         /\ req.university \in SpellingsOf(key))
            => /\ FetchSources = <<scrapers[key]>>
               /\ resp = ToResponse(ExceptException(
                             UniversityBody(key, Returned(1), req.limit, req.offset)))

C4_Witness ==
    /\ UniversityDone
    /\ req.university = <<"B","A","N","G","A","L","O","R","E">>
    /\ fetches[1].source = "bangalore"
    /\ resp.status = 200
    /\ Len(resp.body.data) = 2

\* C6: every success response carries total = the length of the sequence
\* before slicing and echoes limit and offset; a non-empty sequence asked for
\* at an offset >= its length is answered with success, data [] and the true
\* total.
C6_TotalIsUnclipped ==
    (AllDone \/ UniversityDone)
        => /\ resp.status = 200
                => /\ resp.body.total = Len(PreSlicing)
                   /\ resp.body.limit = req.limit
                   /\ resp.body.offset = req.offset
           /\ (PreSlicing # <<>> /\ req.offset >= Len(PreSlicing))
                => /\ resp.status = 200
                   /\ resp.body.data = <<>>
                   /\ resp.body.total = Len(PreSlicing)

C6_Witness ==
    /\ AllDone
    /\ Len(PreSlicing) = 2
    /\ req.offset = 3
    /\ resp.status = 200
    /\ resp.body.data = <<>>
    /\ resp.body.total = 2

\* C7: the sequence GET /announcements aggregates is Bangalore's results, then
\* Goa's, then Mumbai's, each block as its extractor returned it, whichever
\* sources fail or return nothing.
C7_AggregationOrder ==
    AllDone
        => /\ FetchSources = <<"bangalore", "goa", "mumbai">>
           /\ all_announcements = Returned(1) \o Returned(2) \o Returned(3)
           /\ \A i \in 1..Len(all_announcements) :
                all_announcements[i].university =
                    IF i <= Len(Returned(1)) THEN "Bangalore"
                    ELSE IF i <= Len(Returned(1)) + Len(Returned(2)) THEN "Goa"
                    ELSE "Mumbai"

C7_Witness ==
    /\ AllDone
    /\ Len(Returned(1)) = 2
    /\ fetches[2].outcome.kind = "Timeout"
    /\ Len(Returned(3)) = 2
    /\ Len(all_announcements) = 4

\* the anchor element of a source's page is missing at some step
AnchorMissing(source, page) ==
    CASE source = "bangalore" ->
            page.container = None \/ page.container.ul = None
      [] source = "goa" ->
            page.details1 = None \/ page.details1.details1_left = None
      [] source = "mumbai" -> FALSE

\* the anchor is there and no item matches
NoItems(source, page) ==
    /\ ~AnchorMissing(source, page)
    /\ CASE source = "bangalore" -> page.container.ul.li = <<>>
         [] source = "goa" -> page.details1.details1_left.h4 = <<>>
         [] source = "mumbai" -> page.list_items = <<>>

\* C8 as stated: no extractor call raises, and a call whose fetch failed, timed
\* out or returned a non-2xx status, or whose page lacks the anchor or has no
\* matching item, returns the empty sequence.
C8_Non2xxIsEmpty ==
    \A i \in 1..Len(fetches) :
        LET f == fetches[i]
        IN  /\ ~f.result.raised
            /\ (\/ ~IsResponseOutcome(f.outcome)
                \/ f.outcome.status_code \notin 200..299
                \/ AnchorMissing(f.source, f.outcome.page)
                \/ NoItems(f.source, f.outcome.page))
                   => f.result.value = <<>>

\* C8, amended: as C8 with "a 4xx or 5xx status" for "a non-2xx status".
C8_ErrorStatusIsEmpty ==
    \A i \in 1..Len(fetches) :
        LET f == fetches[i]
        IN  /\ ~f.result.raised
            /\ (\/ ~IsResponseOutcome(f.outcome)
                \/ f.outcome.status_code \in 400..599
                \/ AnchorMissing(f.source, f.outcome.page)
                \/ NoItems(f.source, f.outcome.page))
                   => f.result.value = <<>>

C8_Witness ==
    /\ AllDone
    /\ fetches[1].outcome.kind = "Timeout"
    /\ fetches[1].result = Return(<<>>)
    /\ IsResponseOutcome(fetches[2].outcome)
    /\ fetches[2].outcome.status_code = 503
    /\ ~AnchorMissing("goa", fetches[2].outcome.page)
    /\ ~NoItems("goa", fetches[2].outcome.page)
    /\ fetches[2].result = Return(<<>>)
    /\ IsResponseOutcome(fetches[3].outcome)
    /\ fetches[3].outcome.status_code = 200
    /\ NoItems("mumbai", fetches[3].outcome.page)
    /\ fetches[3].result = Return(<<>>)

\* C10: GET /announcements fetches Bangalore, Goa, Mumbai in that order, one
\* at a time, each once, whatever the earlier fetches did;
\* GET /announcements/{university} for a known key fetches that source once.
C10_FetchSequence ==
    /\ pc # "idle" /\ req.endpoint = "all"
         => /\ FetchSources = SubSeq(<<"bangalore", "goa", "mumbai">>, 1, Len(fetches))
            /\ pc = "scrape_bangalore" => Len(fetches) = 0
            /\ pc = "scrape_goa" => Len(fetches) = 1
            /\ pc = "scrape_mumbai" => Len(fetches) = 2
            /\ pc \in {"respond", "done"} => Len(fetches) = 3
    /\ pc # "idle" /\ req.endpoint = "university"
         => /\ Len(fetches) <= 1
            /\ (pc \in {"respond", "done"} /\ Lower(req.university) \in DOMAIN scrapers)
                 => FetchSources = <<scrapers[Lower(req.university)]>>

C10_Witness ==
    /\ AllDone
    /\ fetches[1].outcome.kind = "ConnectionError"
    /\ IsResponseOutcome(fetches[2].outcome) /\ fetches[2].outcome.status_code = 503
    /\ FetchSources = <<"bangalore", "goa", "mumbai">>

(***************************************************************************)
(* Properties of title extraction (SpecTitle).                             *)
(***************************************************************************)
\* title is text with its leading and trailing spaces removed, or "Untitled"
\* when nothing is left
IsTitleOf(title, text) ==
    \E i \in 0..Len(text), j \in 0..Len(text) :
        /\ i + j <= Len(text)
        /\ \A k \in 1..i : text[k] = " "
        /\ \A k \in (Len(text) - j + 1)..Len(text) : text[k] = " "
        /\ LET kept == SubSeq(text, i + 1, Len(text) - j)
           IN  /\ kept = <<>> \/ (kept[1] # " " /\ kept[Len(kept)] # " ")
               /\ title = IF kept = <<>> THEN <<"Untitled">> ELSE kept

\* C9 as stated: a Bangalore or Mumbai record's title is the trimmed text of
\* the item's link element when the item has one, else the trimmed text of the
\* item, and "Untitled" when that is empty; every record's title is non-empty.
C9_TitleFromAnyLink ==
    t_pc = "appended"
        => /\ t_record.title # <<>>
           /\ t_source \in {"bangalore", "mumbai"}
                => IsTitleOf(t_record.title,
                             IF t_element.a # None
                             THEN t_element.a.text
                             ELSE ItemText(t_element))

\* C9, amended: the link element's text is the title only when the link has a
\* non-empty href; an item with no link, or whose link has no href or an empty
\* one, takes the trimmed text of the whole item.
C9_TitleFromLinkWithHref ==
    t_pc = "appended"
        => /\ t_record.title # <<>>
           /\ t_source \in {"bangalore", "mumbai"}
                => IsTitleOf(t_record.title,
                             IF /\ t_element.a # None
                                /\ t_element.a.href # None
                                /\ t_element.a.href.form # "empty"
                             THEN t_element.a.text
                             ELSE ItemText(t_element))
           /\ t_source = "goa" => IsTitleOf(t_record.title, t_element.text)

C9_Witness ==
    /\ t_pc = "appended"
    /\ t_source = "bangalore"
    /\ t_element = [pre |-> <<"a">>, a |-> [href |-> None, text |-> <<"a", "a">>],
                    post |-> <<" ">>]
    /\ t_record.title = <<"a", "a", "a">>

(***************************************************************************)
(* Properties of pagination (SpecSlice).                                   *)
(***************************************************************************)
\* C5: for limit >= 1 and offset >= 0 the slice has
\* min(limit, max(0, len(S) - offset)) elements, those of S from index offset
\* on, and the slices at offsets 0, limit, 2*limit, ... concatenate to S.
C5_SliceLengthAndReconstruction ==
    /\ s_pc \in {"single", "walking", "walked"}
         => /\ Len(s_page) = Min(s_limit, Max(0, Len(s_list) - s_offset))
            /\ \A i \in 1..Len(s_page) : s_page[i] = s_list[s_offset + i]
    /\ s_pc \in {"walking", "walked"}
         => /\ Len(s_acc) = Min(Len(s_list), s_offset + s_limit)
            /\ \A i \in 1..Len(s_acc) : s_acc[i] = s_list[i]
    /\ s_pc = "walked" => s_acc = s_list

C5_Witness ==
    /\ s_pc = "walked"
    /\ s_list = <<1, 2, 3>>
    /\ s_limit = 2
    /\ s_offset = 2
    /\ s_page = <<3>>
    /\ s_acc = <<1, 2, 3>>


====
